---------------------------- MODULE Spec2Model ----------------------------
(***************************************************************************)
(* Range-bound hedging strategy (QuantConnect), in its two variants:       *)
(*   "basic"    src/Pips_And_Lots_Implementation/PipsAndLotsExample.py      *)
(*   "enhanced" src/Trailing_Stop_Loss/TrailingStopWalkthroughExample.py    *)
(* and the portfolio-level risk overlay RangeBoundRiskManagement.           *)
(*                                                                         *)
(* Python floats are modelled as exact rationals [n, d] in lowest terms     *)
(* with d > 0.  Prices are rationals in quote currency (1 pip = 1/10000),   *)
(* lots and money are rationals, the clock counts steps of four hours.      *)
(***************************************************************************)
EXTENDS Integers, Sequences, FiniteSets, TLC

-----------------------------------------------------------------------------
(* Bounds of the model *)

\* the clock stops after MaxTime steps of four hours
MaxTime == 1
\* no exposure counter is followed beyond MaxLots lots
MaxLots == 2
\* no more than MaxOrders open orders are followed
MaxOrders == 7
\* lot sizes are followed down to a denominator of MaxLotDen
MaxLotDen == 40

-----------------------------------------------------------------------------
(* Exact rational arithmetic standing for Python float arithmetic *)

RECURSIVE GCD(_, _)
GCD(a, b) == IF b = 0 THEN a ELSE GCD(b, a % b)

Abs(i) == IF i < 0 THEN -i ELSE i

\* the rational n/d in lowest terms with a positive denominator (d # 0)
R(n, d) ==
    LET s == IF d < 0 THEN -1 ELSE 1
        g == GCD(Abs(n), Abs(d))
    IN  [n |-> (s * n) \div g, d |-> (s * d) \div g]

FromInt(i) == [n |-> i, d |-> 1]
Zero == FromInt(0)

RAdd(x, y) == R(x.n * y.d + y.n * x.d, x.d * y.d)
RNeg(x)    == [n |-> -x.n, d |-> x.d]
RSub(x, y) == RAdd(x, RNeg(y))
RMul(x, y) == R(x.n * y.n, x.d * y.d)
\* x / y for y # 0
RDiv(x, y) == R(x.n * y.d, x.d * y.n)
RAbs(x)    == [n |-> Abs(x.n), d |-> x.d]
RLt(x, y)  == x.n * y.d < y.n * x.d
RLe(x, y)  == x.n * y.d <= y.n * x.d
RMin(x, y) == IF RLt(y, x) THEN y ELSE x

\* Python's None for an optional float: the one record no rational equals
None == [n |-> 0, d |-> 0]

\* a price of k pips (1 pip = 0.0001)
Pips(k) == R(k, 10000)


-----------------------------------------------------------------------------
(* Strategy parameters set by Initialize *)

\* self.r2r
r2r == 2
\* self.maxDrawdown
maxDrawdown == R(2, 100)
\* self.positionSize of each variant
Basic_positionSize == R(1, 100)
Enhanced_positionSize == R(1, 10)
positionSize(v) == IF v = "basic" THEN Basic_positionSize ELSE Enhanced_positionSize
\* self.range_update_interval = timedelta(hours=4): one unit of the clock
range_update_interval == 1
\* self.last_range_update starts at datetime.min, a clock value in the far past
datetime_min == -1000000
\* algorithm.Securities.Keys: the one pair Initialize adds
SecuritiesKeys == <<"EURUSD">>

-----------------------------------------------------------------------------
(* Risk gate *)

\* p is the portfolio as the platform reports it:
\* [TotalPortfolioValue, TotalUnrealizedProfit, MarginRemaining]
IsExcessiveDrawdown(p) ==
    LET total_unrealized_profit_pct ==
            RDiv(p.TotalUnrealizedProfit, p.TotalPortfolioValue)
    IN  RLt(total_unrealized_profit_pct, RNeg(maxDrawdown))

\* Basic_IsVolatilityHigh with >= for >
Basic_IsVolatilityHigh_or_equal(ind) ==
    RLe(RMul(ind.atr, R(15, 10)), ind.atr)

\* ind is the indicator snapshot of the tick; ind.atr is self.atr.Current.Value
Basic_IsVolatilityHigh(ind) ==
    RLt(RMul(ind.atr, R(15, 10)), ind.atr)

\* [x for x in window if x is not None]
NotNone(w) == SelectSeq(w, LAMBDA x : x # None)

\* sum(w[i..j]), for 1 <= i <= j <= Len(w), by halving
RECURSIVE Sum(_, _, _)
Sum(w, i, j) ==
    IF i = j THEN w[i]
    ELSE LET m == (i + j) \div 2
         IN  RAdd(Sum(w, i, m), Sum(w, m + 1, j))

\* ind.window is self.atr.Window, most recent value first
Enhanced_IsVolatilityHigh(ind) ==
    IF ~ind.atrReady THEN FALSE
    ELSE LET current_atr == ind.atr
             window_values == NotNone(ind.window)
         IN  IF Len(window_values) < 20 THEN FALSE
             ELSE LET avg_atr == RDiv(Sum(window_values, 1, 20), FromInt(20))
                  IN  RLt(RMul(avg_atr, R(12, 10)), current_atr)

IsVolatilityHigh(v, ind) ==
    IF v = "basic" THEN Basic_IsVolatilityHigh(ind) ELSE Enhanced_IsVolatilityHigh(ind)

\* Range-bound filter of the enhanced variant
IsRangeBound(ind) ==
    IF ~ind.bbReady THEN FALSE
    ELSE LET price == ind.price
             upper_band == ind.upper
             lower_band == ind.lower
             middle_band == ind.middle
             band_difference == RSub(upper_band, lower_band)
         IN  IF RLt(RAbs(band_difference), R(1, 100000)) THEN FALSE
             ELSE LET band_width == RDiv(band_difference, middle_band)
                      is_range == RLt(R(5, 10000), band_width) /\ RLt(band_width, R(1, 100))
                      price_position == RDiv(RSub(price, lower_band), band_difference)
                      within_bands == RLt(R(1, 10), price_position)
                                      /\ RLt(price_position, R(9, 10))
                      is_flat == RLt(RAbs(RSub(ind.sma, middle_band)),
                                     RMul(ind.atr, R(5, 10)))
                  IN  is_range /\ within_bands /\ is_flat

\* Basic_CanTrade without the drawdown check
Basic_CanTrade_no_drawdown(p, ind) ==
    /\ RLt(RMul(p.TotalPortfolioValue, R(25, 100)), p.MarginRemaining)
    /\ ~Basic_IsVolatilityHigh(ind)

Basic_CanTrade(p, ind) ==
    /\ RLt(RMul(p.TotalPortfolioValue, R(25, 100)), p.MarginRemaining)
    /\ ~IsExcessiveDrawdown(p)
    /\ ~Basic_IsVolatilityHigh(ind)

\* n is len(self.Transactions.GetOpenOrders())
Enhanced_CanTrade(p, ind, n) ==
    /\ RLt(RMul(p.TotalPortfolioValue, R(4, 10)), p.MarginRemaining)
    /\ ~IsExcessiveDrawdown(p)
    /\ ~Enhanced_IsVolatilityHigh(ind)
    /\ IsRangeBound(ind)
    /\ n < 6

CanTrade(v, p, ind, n) ==
    IF v = "basic" THEN Basic_CanTrade(p, ind) ELSE Enhanced_CanTrade(p, ind, n)

-----------------------------------------------------------------------------
(* Position sizer *)

\* ((r2r + 1) / r2r * opposing - own) * 1.1
BaseLots(own, opposing) ==
    RMul(RSub(RMul(RDiv(FromInt(r2r + 1), FromInt(r2r)), opposing), own), R(11, 10))

\* Basic_CalculateBuyLots without the cap
Basic_CalculateBuyLots_uncapped(buyLots, sellLots, TotalPortfolioValue) ==
    IF buyLots = Zero /\ sellLots = Zero
    THEN RMul(TotalPortfolioValue, Basic_positionSize)
    ELSE BaseLots(buyLots, sellLots)

Basic_CalculateBuyLots(buyLots, sellLots, TotalPortfolioValue) ==
    IF buyLots = Zero /\ sellLots = Zero
    THEN RMul(TotalPortfolioValue, Basic_positionSize)
    ELSE RMin(BaseLots(buyLots, sellLots), RMul(TotalPortfolioValue, Basic_positionSize))

Basic_CalculateSellLots(buyLots, sellLots, TotalPortfolioValue) ==
    IF buyLots = Zero /\ sellLots = Zero
    THEN RMul(TotalPortfolioValue, Basic_positionSize)
    ELSE RMin(BaseLots(sellLots, buyLots), RMul(TotalPortfolioValue, Basic_positionSize))

\* Enhanced_CalculateBuyLots always at the base size
Enhanced_CalculateBuyLots_flat(buyLots, sellLots, TotalPortfolioValue) ==
    RMul(TotalPortfolioValue, R(2, 100))

Enhanced_CalculateBuyLots(buyLots, sellLots, TotalPortfolioValue) ==
    LET base_size == RMul(TotalPortfolioValue, R(2, 100))
    IN  IF buyLots = Zero /\ sellLots = Zero THEN base_size
        ELSE RMin(BaseLots(buyLots, sellLots), base_size)

Enhanced_CalculateSellLots(buyLots, sellLots, TotalPortfolioValue) ==
    LET base_size == RMul(TotalPortfolioValue, R(2, 100))
    IN  IF buyLots = Zero /\ sellLots = Zero THEN base_size
        ELSE RMin(BaseLots(sellLots, buyLots), base_size)

CalculateBuyLots(v, buyLots, sellLots, TotalPortfolioValue) ==
    IF v = "basic" THEN Basic_CalculateBuyLots(buyLots, sellLots, TotalPortfolioValue)
    ELSE Enhanced_CalculateBuyLots(buyLots, sellLots, TotalPortfolioValue)

CalculateSellLots(v, buyLots, sellLots, TotalPortfolioValue) ==
    IF v = "basic" THEN Basic_CalculateSellLots(buyLots, sellLots, TotalPortfolioValue)
    ELSE Enhanced_CalculateSellLots(buyLots, sellLots, TotalPortfolioValue)

-----------------------------------------------------------------------------
(* Range tracker *)

\* lv is [buyLine, sellLine, last_range_update]; the basic variant keeps no
\* last_range_update and leaves that field alone
\* Basic_UpdateRangeLevels recomputing on every tick with ready indicators
Basic_UpdateRangeLevels_every_tick(lv, ind) ==
    IF ~(ind.highReady /\ ind.lowReady /\ ind.atrReady) THEN lv
    ELSE LET range_buffer == RMul(ind.atr, R(5, 10))
         IN  [lv EXCEPT !.buyLine = RSub(ind.low, range_buffer),
                        !.sellLine = RAdd(ind.high, range_buffer)]

\* Basic_UpdateRangeLevels with the buffer applied inwards
Basic_UpdateRangeLevels_inwards(lv, ind) ==
    IF ~(ind.highReady /\ ind.lowReady /\ ind.atrReady) THEN lv
    ELSE IF lv.buyLine = None \/ lv.sellLine = None
         THEN LET range_buffer == RMul(ind.atr, R(5, 10))
              IN  [lv EXCEPT !.buyLine = RAdd(ind.low, range_buffer),
                             !.sellLine = RSub(ind.high, range_buffer)]
         ELSE lv

Basic_UpdateRangeLevels(lv, ind) ==
    IF ~(ind.highReady /\ ind.lowReady /\ ind.atrReady) THEN lv
    ELSE IF lv.buyLine = None \/ lv.sellLine = None
         THEN LET range_buffer == RMul(ind.atr, R(5, 10))
              IN  [lv EXCEPT !.buyLine = RSub(ind.low, range_buffer),
                             !.sellLine = RAdd(ind.high, range_buffer)]
         ELSE lv

\* Enhanced_UpdateRangeLevels refreshing only after more than the interval
Enhanced_UpdateRangeLevels_late(lv, ind, current_time) ==
    IF ~(ind.highReady /\ ind.lowReady /\ ind.atrReady) THEN lv
    ELSE IF \/ lv.buyLine = None
            \/ lv.sellLine = None
            \/ current_time - lv.last_range_update > range_update_interval
         THEN LET range_buffer == RMul(ind.atr, R(10, 10))
              IN  [buyLine |-> RSub(ind.low, range_buffer),
                   sellLine |-> RAdd(ind.high, range_buffer),
                   last_range_update |-> current_time]
         ELSE lv

Enhanced_UpdateRangeLevels(lv, ind, current_time) ==
    IF ~(ind.highReady /\ ind.lowReady /\ ind.atrReady) THEN lv
    ELSE IF \/ lv.buyLine = None
            \/ lv.sellLine = None
            \/ current_time - lv.last_range_update >= range_update_interval
         THEN LET range_buffer == RMul(ind.atr, R(10, 10))
              IN  [buyLine |-> RSub(ind.low, range_buffer),
                   sellLine |-> RAdd(ind.high, range_buffer),
                   last_range_update |-> current_time]
         ELSE lv

UpdateRangeLevels(v, lv, ind, current_time) ==
    IF v = "basic" THEN Basic_UpdateRangeLevels(lv, ind)
    ELSE Enhanced_UpdateRangeLevels(lv, ind, current_time)

-----------------------------------------------------------------------------
(* What the platform can hand to the handlers *)

\* A tick is everything OnData reads from the platform: the portfolio, the
\* indicators and the bar.  history is self.atr.Window without its most recent
\* value, bands the three Bollinger values.
Quiet ==
    [TotalPortfolioValue |-> FromInt(50),
     TotalUnrealizedProfit |-> Zero,
     MarginRemaining |-> FromInt(45),
     atr |-> Pips(2), atrReady |-> TRUE, history |-> <<Pips(2)>>,
     highReady |-> TRUE, high |-> Pips(11004),
     lowReady |-> TRUE, low |-> Pips(11003),
     price |-> Pips(11001),
     sma |-> Pips(11005), bbReady |-> TRUE,
     bands |-> [lower |-> Pips(10995), middle |-> Pips(11005), upper |-> Pips(11015)]]

\* the same tick at a loss beyond the drawdown limit
Loss == [Quiet EXCEPT !.TotalUnrealizedProfit = R(-3, 2)]

\* The other readings of each field: a loss beyond and one exactly at the drawdown
\* limit, too little margin, no volatility, indicators not ready, another low, a
\* price inside and one above the range
BasicReadings ==
    [TotalUnrealizedProfit |-> {R(-3, 2), FromInt(-1)},
     MarginRemaining |-> {FromInt(10)},
     atr |-> {Zero},
     atrReady |-> {FALSE},
     highReady |-> {FALSE},
     lowReady |-> {FALSE},
     low |-> {Pips(11002)},
     price |-> {Pips(11004), Pips(11009)}]

\* and those only the enhanced variant reads: twenty ATR values equal to the
\* current one or a current value after nineteen zeros, a moving average off the
\* band midline, Bollinger bands not ready or of zero width
EnhancedReadings ==
    [history |-> {[k \in 1..19 |-> Pips(2)], [k \in 1..19 |-> Zero]},
     sma |-> {Pips(11010)},
     bbReady |-> {FALSE},
     bands |-> {[lower |-> Pips(11005), middle |-> Pips(11005), upper |-> Pips(11005)]}]

\* the ticks that differ from t in one reading
OneOff(readings, t) ==
    UNION { { [t EXCEPT ![f] = x] : x \in readings[f] } : f \in DOMAIN readings }

\* the quiet tick, the one at a loss, and the ticks that differ from either in
\* one reading
TicksWithin(readings) ==
    {Quiet, Loss} \cup OneOff(readings, Quiet) \cup OneOff(readings, Loss)

BasicTicks == TicksWithin(BasicReadings)
EnhancedTicks == TicksWithin(BasicReadings @@ EnhancedReadings)
Ticks(v) == IF v = "basic" THEN BasicTicks ELSE EnhancedTicks

\* the portfolio of a tick
PortfolioOf(t) ==
    [TotalPortfolioValue |-> t.TotalPortfolioValue,
     TotalUnrealizedProfit |-> t.TotalUnrealizedProfit,
     MarginRemaining |-> t.MarginRemaining]

\* the indicators of a tick
IndicatorsOf(t) ==
    [atr |-> t.atr, atrReady |-> t.atrReady, window |-> <<t.atr>> \o t.history,
     highReady |-> t.highReady, high |-> t.high, lowReady |-> t.lowReady, low |-> t.low,
     price |-> t.price, sma |-> t.sma, bbReady |-> t.bbReady,
     lower |-> t.bands.lower, middle |-> t.bands.middle, upper |-> t.bands.upper]

\* what ManageRisk can find in the portfolio
PortfolioValues == {FromInt(100), FromInt(200)}
UnrealizedProfits == {FromInt(-3), FromInt(-2), FromInt(0)}
\* quantities of the fills the platform reports for orders it works on its own
FillQuantities == {FromInt(1)}
\* the targets the portfolio construction layer proposes
TargetLists ==
    { <<>>,
      <<[Symbol |-> "EURUSD", Quantity |-> 1]>>,
      <<[Symbol |-> "EURUSD", Quantity |-> 0]>> }
-----------------------------------------------------------------------------
(* State *)

VARIABLES
    variant,            \* which of the two strategies runs
    buyLine, sellLine,  \* self.buyLine, self.sellLine
    last_range_update,  \* self.last_range_update (enhanced)
    Time,               \* self.Time, in steps of four hours
    openBuyLots, openSellLots,
    openOrders,         \* len(self.Transactions.GetOpenOrders())
    pendingFills,       \* fill notifications the platform has still to deliver
    exit_triggered,     \* RangeBoundRiskManagement.exit_triggered
    last                \* what the last handler invocation was given and did

vars == <<variant, buyLine, sellLine, last_range_update, Time, openBuyLots,
          openSellLots, openOrders, pendingFills, exit_triggered, last>>

Init ==
    /\ variant \in {"basic", "enhanced"}
    /\ buyLine = None
    /\ sellLine = None
    /\ last_range_update = datetime_min
    /\ Time = 0
    /\ openBuyLots = Zero
    /\ openSellLots = Zero
    /\ openOrders = 0
    /\ pendingFills = <<>>
    /\ exit_triggered = FALSE
    /\ last = [op |-> "Initialize"]

\* an exposure counter the model still follows
Followed(x) == RLe(x, FromInt(MaxLots)) /\ x.d <= MaxLotDen

-----------------------------------------------------------------------------
(* Order orchestrator and liquidation.  Each gives the handler's effect as
   [buy, sell: the exposure counters after the call,
    orders: the requests sent to the platform,
    fills: the fill notifications the platform owes for them,
    opened: the change in the number of open orders: the stop and the limit
            order of a filled entry, a market order still working,
    status: the status of the market order's ticket, "None" without one] *)

\* ExecuteBuyOrder without the check of the ticket's status
ExecuteBuyOrder_unchecked(lots, line, ind, status) ==
    LET stop_price == RSub(line, ind.atr)
        take_profit == RAdd(line, RMul(ind.atr, FromInt(r2r)))
        market == [type |-> "Market", quantity |-> lots, price |-> None]
    IN  [buy |-> RAdd(openBuyLots, lots), sell |-> openSellLots,
         orders |-> << market,
                       [type |-> "StopMarket", quantity |-> RNeg(lots), price |-> stop_price],
                       [type |-> "Limit", quantity |-> RNeg(lots), price |-> take_profit] >>,
         fills |-> IF status = "Filled" THEN << [Direction |-> "Buy", Quantity |-> lots] >>
                   ELSE << >>,
         opened |-> IF status = "Invalid" THEN 2 ELSE 3, status |-> status]

\* status is ticket.Status as MarketOrder returns it
ExecuteBuyOrder(lots, line, ind, status) ==
    LET stop_price == RSub(line, ind.atr)
        take_profit == RAdd(line, RMul(ind.atr, FromInt(r2r)))
        market == [type |-> "Market", quantity |-> lots, price |-> None]
    IN  IF status = "Filled"
        THEN [buy |-> RAdd(openBuyLots, lots), sell |-> openSellLots,
              orders |-> << market,
                            [type |-> "StopMarket", quantity |-> RNeg(lots), price |-> stop_price],
                            [type |-> "Limit", quantity |-> RNeg(lots), price |-> take_profit] >>,
              fills |-> << [Direction |-> "Buy", Quantity |-> lots] >>,
              opened |-> 2, status |-> status]
        ELSE [buy |-> openBuyLots, sell |-> openSellLots,
              orders |-> << market >>,
              fills |-> << >>,
              opened |-> IF status = "Submitted" THEN 1 ELSE 0, status |-> status]

\* ExecuteSellOrder sending the market order a second time when it did not fill
ExecuteSellOrder_retry(lots, line, ind, status) ==
    LET stop_price == RAdd(line, ind.atr)
        take_profit == RSub(line, RMul(ind.atr, FromInt(r2r)))
        market == [type |-> "Market", quantity |-> RNeg(lots), price |-> None]
    IN  IF status = "Filled"
        THEN [buy |-> openBuyLots, sell |-> RAdd(openSellLots, lots),
              orders |-> << market,
                            [type |-> "StopMarket", quantity |-> lots, price |-> stop_price],
                            [type |-> "Limit", quantity |-> lots, price |-> take_profit] >>,
              fills |-> << [Direction |-> "Sell", Quantity |-> RNeg(lots)] >>,
              opened |-> 2, status |-> status]
        ELSE [buy |-> openBuyLots, sell |-> openSellLots,
              orders |-> << market, market >>,
              fills |-> << >>,
              opened |-> IF status = "Submitted" THEN 2 ELSE 0, status |-> status]

ExecuteSellOrder(lots, line, ind, status) ==
    LET stop_price == RAdd(line, ind.atr)
        take_profit == RSub(line, RMul(ind.atr, FromInt(r2r)))
        market == [type |-> "Market", quantity |-> RNeg(lots), price |-> None]
    IN  IF status = "Filled"
        THEN [buy |-> openBuyLots, sell |-> RAdd(openSellLots, lots),
              orders |-> << market,
                            [type |-> "StopMarket", quantity |-> lots, price |-> stop_price],
                            [type |-> "Limit", quantity |-> lots, price |-> take_profit] >>,
              fills |-> << [Direction |-> "Sell", Quantity |-> RNeg(lots)] >>,
              opened |-> 2, status |-> status]
        ELSE [buy |-> openBuyLots, sell |-> openSellLots,
              orders |-> << market >>,
              fills |-> << >>,
              opened |-> IF status = "Submitted" THEN 1 ELSE 0, status |-> status]

\* self.Liquidate() cancels the open orders and closes the holdings at market;
\* closing is the fill notifications the platform delivers after the call
\* returns (none when nothing is held or when it delivers them inside the call,
\* before the counters are reset)
\* LiquidatePositions with the sell counter left as it is
LiquidatePositions_buy_only(closing) ==
    [buy |-> Zero, sell |-> openSellLots,
     orders |-> << [type |-> "Liquidate", quantity |-> Zero, price |-> None] >>,
     fills |-> closing,
     opened |-> -openOrders, status |-> "None"]

LiquidatePositions(closing) ==
    [buy |-> Zero, sell |-> Zero,
     orders |-> << [type |-> "Liquidate", quantity |-> Zero, price |-> None] >>,
     fills |-> closing,
     opened |-> -openOrders, status |-> "None"]

NoEffect ==
    [buy |-> openBuyLots, sell |-> openSellLots, orders |-> << >>, fills |-> << >>,
     opened |-> 0, status |-> "None"]

-----------------------------------------------------------------------------
(* Handlers *)

\* What OnData saw on a tick, kept in last.  A tick that returns before the
\* trading logic leaves the fields of the trading logic empty.
Seen(excessive, volHigh, ready) ==
    [excessive |-> excessive, volHigh |-> volHigh, ready |-> ready,
     price |-> None, size |-> None, canTrade |-> FALSE,
     buyBefore |-> None, sellBefore |-> None]

\* The end of a tick: lv are the range levels after it, eff the effect of the
\* order orchestrator or of the liquidation, outcome the branch OnData took,
\* seen what it read: excessive and volHigh are IsExcessiveDrawdown and
\* IsVolatilityHigh on the tick's snapshot, ready whether high, low and atr are
\* all ready, price the close, size the lots computed, canTrade what CanTrade
\* returned when it was called, buyBefore and sellBefore the exposure counters
\* at the start of the trading logic.
EndTick(lv, eff, outcome, seen) ==
    /\ Followed(eff.buy)
    /\ Followed(eff.sell)
    /\ openOrders + eff.opened <= MaxOrders
    /\ buyLine' = lv.buyLine
    /\ sellLine' = lv.sellLine
    /\ last_range_update' = lv.last_range_update
    /\ openBuyLots' = eff.buy
    /\ openSellLots' = eff.sell
    /\ openOrders' = openOrders + eff.opened
    /\ pendingFills' = pendingFills \o eff.fills
    /\ last' = [op |-> "OnData", outcome |-> outcome, status |-> eff.status,
                orders |-> eff.orders] @@ seen
    /\ UNCHANGED <<variant, Time, exit_triggered>>

\* Trading logic of OnData, once the risk checks have passed
Trade(lv, p, ind, seen) ==
    LET current_price == ind.price
        at_price == [seen EXCEPT !.price = current_price,
                                 !.buyBefore = openBuyLots,
                                 !.sellBefore = openSellLots]
    IN  IF RLe(current_price, lv.buyLine)
        THEN LET buy_lots == CalculateBuyLots(variant, openBuyLots, openSellLots,
                                              p.TotalPortfolioValue)
                 sized == [at_price EXCEPT !.size = buy_lots]
             IN  IF RLt(Zero, buy_lots)
                 THEN IF CanTrade(variant, p, ind, openOrders)
                      THEN \E status \in {"Filled", "Submitted", "Invalid"} :
                             EndTick(lv, ExecuteBuyOrder(buy_lots, lv.buyLine, ind, status),
                                     "buy", [sized EXCEPT !.canTrade = TRUE])
                      ELSE EndTick(lv, NoEffect, "none", sized)
                 ELSE EndTick(lv, NoEffect, "none", sized)
        ELSE IF RLe(lv.sellLine, current_price)
        THEN LET sell_lots == CalculateSellLots(variant, openBuyLots, openSellLots,
                                                p.TotalPortfolioValue)
                 sized == [at_price EXCEPT !.size = sell_lots]
             IN  IF RLt(Zero, sell_lots)
                 THEN IF CanTrade(variant, p, ind, openOrders)
                      THEN \E status \in {"Filled", "Submitted", "Invalid"} :
                             EndTick(lv, ExecuteSellOrder(sell_lots, lv.sellLine, ind, status),
                                     "sell", [sized EXCEPT !.canTrade = TRUE])
                      ELSE EndTick(lv, NoEffect, "none", sized)
                 ELSE EndTick(lv, NoEffect, "none", sized)
        ELSE EndTick(lv, NoEffect, "none", at_price)

\* RiskCheck on the drawdown alone
RiskCheck_drawdown_only(excessive, volHigh) == excessive

\* The risk check of OnData
RiskCheck(excessive, volHigh) == excessive \/ volHigh

\* OnData after the warm-up check
HandleTick(p, ind) ==
    LET lv0 == [buyLine |-> buyLine, sellLine |-> sellLine,
                last_range_update |-> last_range_update]
        excessive == IsExcessiveDrawdown(p)
        volHigh == IsVolatilityHigh(variant, ind)
        seen == Seen(excessive, volHigh, ind.highReady /\ ind.lowReady /\ ind.atrReady)
    IN  IF variant = "enhanced" /\ ~IsRangeBound(ind)
        THEN EndTick(lv0, NoEffect, "not_range_bound", seen)
        ELSE LET lv == UpdateRangeLevels(variant, lv0, ind, Time)
             IN  IF lv.buyLine = None \/ lv.sellLine = None
                 THEN EndTick(lv, NoEffect, "no_levels", seen)
                 ELSE IF RiskCheck(excessive, volHigh)
                 THEN \E closing \in {<< >>,
                                      << [Direction |-> "Sell", Quantity |-> FromInt(-1)] >>} :
                        EndTick(lv, LiquidatePositions(closing), "liquidated", seen)
                 ELSE Trade(lv, p, ind, seen)

\* The platform delivers the fill notifications of a tick before the next tick
OnData ==
    /\ pendingFills = << >>
    /\ \E IsWarmingUp \in BOOLEAN, ContainsKey \in BOOLEAN :
      IF IsWarmingUp \/ ~ContainsKey
      THEN /\ last' = [op |-> "OnData", outcome |-> "skipped", status |-> "None",
                       orders |-> << >>] @@ Seen(FALSE, FALSE, FALSE)
           /\ UNCHANGED <<variant, buyLine, sellLine, last_range_update, Time, openBuyLots,
                          openSellLots, openOrders, pendingFills, exit_triggered>>
      ELSE \E t \in Ticks(variant) : HandleTick(PortfolioOf(t), IndicatorsOf(t))

\* The order events the platform can deliver: the fill of a market order of the
\* strategy (own), or an event of an order the platform worked on its own (a
\* stop, a limit, a target of the risk overlay), which leaves the open orders
\* when wasOpen
OrderEvents ==
    { [own |-> TRUE, Status |-> "Filled", order |-> pendingFills[k], wasOpen |-> FALSE] :
        k \in 1..(IF pendingFills = << >> THEN 0 ELSE 1) }
    \cup
    { e \in [own : {FALSE}, Status : {"Filled", "Canceled", "Submitted"},
             order : [Direction : {"Buy", "Sell"}, Quantity : FillQuantities],
             wasOpen : BOOLEAN] :
        e.wasOpen => openOrders > 0 /\ e.Status # "Submitted" }

\* OnOrderEvent(orderEvent).  last keeps the event and, when it is the fill of
\* the entry the tick just before sent (ofEntry), the order and the exposure
\* counters from before that entry.
OnOrderEvent ==
    \E orderEvent \in OrderEvents :
      LET order == orderEvent.order
          ofEntry == /\ orderEvent.own
                     /\ last.op = "OnData"
                     /\ last.outcome \in {"buy", "sell"}
      IN  /\ pendingFills' = IF orderEvent.own THEN Tail(pendingFills) ELSE pendingFills
          /\ openOrders' = IF orderEvent.wasOpen THEN openOrders - 1 ELSE openOrders
          /\ IF orderEvent.Status = "Filled"
             THEN IF order.Direction = "Buy"
                  THEN /\ openBuyLots' = RAdd(openBuyLots, RAbs(order.Quantity))
                       /\ Followed(openBuyLots')
                       /\ UNCHANGED openSellLots
                  ELSE /\ openSellLots' = RAdd(openSellLots, RAbs(order.Quantity))
                       /\ Followed(openSellLots')
                       /\ UNCHANGED openBuyLots
             ELSE UNCHANGED <<openBuyLots, openSellLots>>
          /\ last' = [op |-> "OnOrderEvent", Status |-> orderEvent.Status,
                      own |-> orderEvent.own, ofEntry |-> ofEntry,
                      order |-> IF ofEntry THEN order
                                ELSE [Direction |-> "None", Quantity |-> Zero],
                      buyBefore |-> IF ofEntry THEN last.buyBefore ELSE None,
                      sellBefore |-> IF ofEntry THEN last.sellBefore ELSE None]
          /\ UNCHANGED <<variant, buyLine, sellLine, last_range_update, Time,
                         exit_triggered>>

\* The platform's clock moves on between two handlers (the basic variant never
\* reads it)
AdvanceTime ==
    /\ variant = "enhanced"
    /\ Time < MaxTime
    /\ Time' = Time + 1
    /\ UNCHANGED <<variant, buyLine, sellLine, last_range_update, openBuyLots,
                   openSellLots, openOrders, pendingFills, exit_triggered, last>>

\* RangeBoundRiskManagement.ManageRisk(algorithm, targets), as
\* [exit_triggered: the flag after the call, result: the list returned],
\* from the flag before the call and the portfolio's unrealized profit ratio
\* ManageRiskOn with a breach at a ratio equal to the threshold as well
ManageRiskOn_inclusive(triggered, total_unrealized_profit_pct, targets) ==
    IF RLe(total_unrealized_profit_pct, RNeg(maxDrawdown))
    THEN [exit_triggered |-> TRUE,
          result |-> [k \in 1..Len(SecuritiesKeys) |->
                        [Symbol |-> SecuritiesKeys[k], Quantity |-> 0]]]
    ELSE IF triggered /\ RLe(Zero, total_unrealized_profit_pct)
    THEN [exit_triggered |-> FALSE, result |-> targets]
    ELSE [exit_triggered |-> triggered, result |-> targets]

\* ManageRiskOn with the latch cleared as soon as the ratio is back inside the
\* threshold
ManageRiskOn_early_clear(triggered, total_unrealized_profit_pct, targets) ==
    IF RLt(total_unrealized_profit_pct, RNeg(maxDrawdown))
    THEN [exit_triggered |-> TRUE,
          result |-> [k \in 1..Len(SecuritiesKeys) |->
                        [Symbol |-> SecuritiesKeys[k], Quantity |-> 0]]]
    ELSE [exit_triggered |-> FALSE, result |-> targets]

ManageRiskOn(triggered, total_unrealized_profit_pct, targets) ==
    IF RLt(total_unrealized_profit_pct, RNeg(maxDrawdown))
    THEN [exit_triggered |-> TRUE,
          result |-> [k \in 1..Len(SecuritiesKeys) |->
                        [Symbol |-> SecuritiesKeys[k], Quantity |-> 0]]]
    ELSE IF triggered /\ RLe(Zero, total_unrealized_profit_pct)
    THEN [exit_triggered |-> FALSE, result |-> targets]
    ELSE [exit_triggered |-> triggered, result |-> targets]

\* The platform's call of the risk overlay; last keeps what it was given (the
\* ratio, the flag before the call, the targets) and what it returned
ManageRisk ==
    \E TotalPortfolioValue \in PortfolioValues,
       TotalUnrealizedProfit \in UnrealizedProfits,
       targets \in TargetLists :
      LET total_unrealized_profit_pct == RDiv(TotalUnrealizedProfit, TotalPortfolioValue)
          out == ManageRiskOn(exit_triggered, total_unrealized_profit_pct, targets)
      IN  /\ exit_triggered' = out.exit_triggered
          /\ last' = [op |-> "ManageRisk",
                      pct |-> total_unrealized_profit_pct,
                      triggered |-> exit_triggered,
                      targets |-> targets,
                      result |-> out.result]
          /\ UNCHANGED <<variant, buyLine, sellLine, last_range_update, Time, openBuyLots,
                         openSellLots, openOrders, pendingFills>>

\* The strategy: ticks, order events and the clock
Next == OnData \/ OnOrderEvent \/ AdvanceTime

Spec == Init /\ [][Next]_vars

\* The risk overlay next to the order events that move the exposure counters
NextOverlay == ManageRisk \/ OnOrderEvent

SpecOverlay == Init /\ [][NextOverlay]_vars

-----------------------------------------------------------------------------
(* The risk gate on its own: CanTrade applied to any portfolio, indicator
   snapshot and number of open orders *)

GatePortfolios ==
    [TotalPortfolioValue : {FromInt(50), FromInt(100)},
     TotalUnrealizedProfit : {FromInt(-3), R(-3, 2), FromInt(-1), Zero, FromInt(1)},
     MarginRemaining : {FromInt(10), R(25, 2), FromInt(20), FromInt(45), FromInt(90)}]
GateIndicators == { IndicatorsOf(t) : t \in EnhancedTicks }
GateOpenOrders == {0, 5, 6, 7}

\* the inputs are drawn at the start
InitGate ==
    /\ variant \in {"basic", "enhanced"}
    /\ buyLine = None
    /\ sellLine = None
    /\ last_range_update = datetime_min
    /\ Time = 0
    /\ openBuyLots = Zero
    /\ openSellLots = Zero
    /\ openOrders \in GateOpenOrders
    /\ pendingFills = <<>>
    /\ exit_triggered = FALSE
    /\ last \in [op : {"Inputs"}, p : GatePortfolios, ind : GateIndicators]

EvaluateCanTrade ==
    /\ last.op = "Inputs"
    /\ last' = [op |-> "CanTrade", p |-> last.p, ind |-> last.ind,
                result |-> CanTrade(variant, last.p, last.ind, openOrders)]
    /\ UNCHANGED <<variant, buyLine, sellLine, last_range_update, Time, openBuyLots,
                   openSellLots, openOrders, pendingFills, exit_triggered>>

SpecGate == InitGate /\ [][EvaluateCanTrade]_vars

-----------------------------------------------------------------------------
(* Properties of the risk overlay, under SpecOverlay *)

\* a list holds exactly one target for every known instrument, each of quantity 0
FlattensAll(list) ==
    /\ Len(list) = Len(SecuritiesKeys)
    /\ \A k \in 1..Len(SecuritiesKeys) :
         /\ Cardinality({j \in 1..Len(list) : list[j].Symbol = SecuritiesKeys[k]}) = 1
         /\ list[k].Quantity = 0

\* C1: once exit_triggered has been set by a breach, every later call of
\* ManageRisk whose ratio unrealizedProfit/totalValue lies in [-maxDrawdown, 0)
\* still returns the flatten targets and not the targets it was given.
C1_LatchedKeepsFlattening ==
    ( /\ last.op = "ManageRisk"
      /\ last.triggered
      /\ RLe(RNeg(maxDrawdown), last.pct)
      /\ RLt(last.pct, Zero) )
    => FlattensAll(last.result)

\* C2: a call of ManageRisk with a ratio strictly below -maxDrawdown sets
\* exit_triggered and returns exactly one target of quantity 0 for every known
\* instrument, whatever targets it was given; a ratio exactly equal to
\* -maxDrawdown does not trip the latch: the flag is left as it was and the given
\* targets come back.
C2_BreachFlattens ==
    last.op = "ManageRisk" =>
      /\ RLt(last.pct, RNeg(maxDrawdown)) => exit_triggered /\ FlattensAll(last.result)
      /\ last.pct = RNeg(maxDrawdown) =>
           exit_triggered = last.triggered /\ last.result = last.targets

\* a breach overrode a target that asked for a position
C2_Witness ==
    /\ last.op = "ManageRisk"
    /\ RLt(last.pct, RNeg(maxDrawdown))
    /\ last.targets # << >>
    /\ last.targets[1].Quantity # 0
    /\ ~last.triggered

\* C3: exit_triggered, once true, stays true across every call with a ratio < 0
\* and is cleared only by a call with a ratio >= 0; that clearing call, and
\* every call made while exit_triggered is false and the ratio is not below the
\* threshold, returns the given targets unmodified.
C3_LatchClearedOnlyOnRecovery ==
    last.op = "ManageRisk" =>
      /\ last.triggered /\ RLt(last.pct, Zero) => exit_triggered
      /\ last.triggered /\ ~exit_triggered =>
           RLe(Zero, last.pct) /\ last.result = last.targets
      /\ ~last.triggered /\ ~RLt(last.pct, RNeg(maxDrawdown)) =>
           ~exit_triggered /\ last.result = last.targets

\* a call cleared the latch and handed back a target that asked for a position
C3_Witness ==
    /\ last.op = "ManageRisk"
    /\ last.triggered
    /\ ~exit_triggered
    /\ last.targets # << >>
    /\ last.targets[1].Quantity # 0

\* C5: whenever the overlay detects a breach and returns the flatten targets,
\* the exposure counters openBuyLots and openSellLots are reset to (0, 0), as
\* they are when the main loop liquidates.
C5_OverlayBreachResetsExposure ==
    ( /\ last.op = "ManageRisk"
      /\ RLt(last.pct, RNeg(maxDrawdown))
      /\ FlattensAll(last.result) )
    => openBuyLots = Zero /\ openSellLots = Zero

-----------------------------------------------------------------------------
(* Properties of the strategy, under Spec *)

\* C4: under any interleaving of ticks and order events, openBuyLots and
\* openSellLots are never negative and never decrease except in a tick that
\* calls LiquidatePositions, after which both are exactly 0.
C4_ExposureMonotoneBetweenLiquidations ==
    [][ /\ RLe(Zero, openBuyLots') /\ RLe(Zero, openSellLots')
        /\ IF last'.op = "OnData" /\ last'.outcome = "liquidated"
           THEN openBuyLots' = Zero /\ openSellLots' = Zero
           ELSE RLe(openBuyLots, openBuyLots') /\ RLe(openSellLots, openSellLots')
      ]_vars

\* a tick liquidated a position the platform was holding: its closing fill is
\* still to come and both counters are 0
C4_Witness ==
    /\ last.op = "OnData"
    /\ last.outcome = "liquidated"
    /\ pendingFills # << >>
    /\ openBuyLots = Zero
    /\ openSellLots = Zero

\* the requests of a tick that are entry or protective orders
EntryOrders(orders) ==
    SelectSeq(orders, LAMBDA o : o.type \in {"Market", "StopMarket", "Limit"})

\* C6: on every price update handled after warm-up, if IsExcessiveDrawdown or
\* IsVolatilityHigh holds then the tick liquidates, resets the exposure to (0, 0)
\* and emits no entry or protective order, whatever the range-bound
\* classification and whether or not the range levels are set.
C6_RiskAlwaysLiquidates ==
    ( /\ last.op = "OnData"
      /\ last.outcome # "skipped"
      /\ last.excessive \/ last.volHigh )
    => /\ last.outcome = "liquidated"
       /\ openBuyLots = Zero /\ openSellLots = Zero
       /\ EntryOrders(last.orders) = << >>

\* C6 as amended: the same, on the ticks that pass the range-bound filter
\* (enhanced variant) and leave UpdateRangeLevels with both range levels set.
C6_RiskLiquidatesPastTheFilter ==
    ( /\ last.op = "OnData"
      /\ last.outcome \notin {"skipped", "not_range_bound"}
      /\ buyLine # None /\ sellLine # None
      /\ last.excessive \/ last.volHigh )
    => /\ last.outcome = "liquidated"
       /\ openBuyLots = Zero /\ openSellLots = Zero
       /\ last.orders = << [type |-> "Liquidate", quantity |-> Zero, price |-> None] >>

\* a tick of the enhanced variant liquidated for volatility alone
C6_Witness ==
    /\ last.op = "OnData"
    /\ last.outcome = "liquidated"
    /\ last.volHigh
    /\ ~last.excessive

\* C7: whenever both range lines are set, buyLine <= sellLine (every indicator
\* snapshot has rollingLow <= rollingHigh and atr >= 0).
C7_BuyLineNotAboveSellLine ==
    buyLine # None /\ sellLine # None => RLe(buyLine, sellLine)

\* the enhanced variant has refreshed its levels after the first time
C7_Witness ==
    /\ buyLine # None
    /\ sellLine # None
    /\ last_range_update > 0

\* the portfolio values the sizer is tried on
PositiveValues == {R(1, 2), FromInt(1), FromInt(50), FromInt(100), FromInt(1000000)}

\* C8: in every reachable exposure state and for every positive portfolio
\* value, CalculateBuyLots and CalculateSellLots return at most
\* portfolioValue * positionSize.
C8_SizeWithinPerTradeCap ==
    \A pv \in PositiveValues :
      /\ RLe(CalculateBuyLots(variant, openBuyLots, openSellLots, pv),
             RMul(pv, positionSize(variant)))
      /\ RLe(CalculateSellLots(variant, openBuyLots, openSellLots, pv),
             RMul(pv, positionSize(variant)))

\* mid-rebalance: a buy entry was sent while sell lots were open
C8_Witness ==
    /\ last.op = "OnData"
    /\ last.outcome = "buy"
    /\ RLt(Zero, openSellLots)
    /\ RLt(Zero, openBuyLots)

\* C10: with both exposure counters at zero, CalculateBuyLots and
\* CalculateSellLots each return exactly portfolioValue * positionSize, in both
\* variants.
C10_BootstrapIsPositionSize ==
    openBuyLots = Zero /\ openSellLots = Zero =>
      \A pv \in PositiveValues :
        /\ CalculateBuyLots(variant, openBuyLots, openSellLots, pv)
             = RMul(pv, positionSize(variant))
        /\ CalculateSellLots(variant, openBuyLots, openSellLots, pv)
             = RMul(pv, positionSize(variant))

-----------------------------------------------------------------------------
(* Properties of the risk gate, under SpecGate *)

\* C9: CanTrade is false whenever IsExcessiveDrawdown is true, for every margin,
\* volatility, range-bound and open-order reading, in both variants.
C9_DrawdownBlocksTrading ==
    last.op = "CanTrade" /\ IsExcessiveDrawdown(last.p) => ~last.result

\* the drawdown is the only gate that is closed
C9_Witness ==
    /\ last.op = "CanTrade"
    /\ IsExcessiveDrawdown(last.p)
    /\ CanTrade(variant, [last.p EXCEPT !.TotalUnrealizedProfit = Zero], last.ind, openOrders)

-----------------------------------------------------------------------------
(* Properties of the order orchestrator and of the tick, under Spec *)

\* the requests of a tick that are of one type
OfType(orders, type) == SelectSeq(orders, LAMBDA o : o.type = type)

\* C11: a tick that calls ExecuteBuyOrder or ExecuteSellOrder and whose market
\* order is not reported filled leaves openBuyLots and openSellLots as they were
\* and places no stop and no limit order; when it is reported filled, exactly one
\* stop order and one limit order are placed, each for the quantity of the market
\* order in the opposite direction.
C11_ProtectiveOrdersOnlyOnFill ==
    (last.op = "OnData" /\ last.outcome \in {"buy", "sell"}) =>
      LET market == OfType(last.orders, "Market")
          stops == OfType(last.orders, "StopMarket")
          limits == OfType(last.orders, "Limit")
      IN  /\ Len(market) = 1
          /\ IF last.status # "Filled"
             THEN /\ openBuyLots = last.buyBefore
                  /\ openSellLots = last.sellBefore
                  /\ stops = << >>
                  /\ limits = << >>
             ELSE /\ Len(stops) = 1
                  /\ Len(limits) = 1
                  /\ stops[1].quantity = RNeg(market[1].quantity)
                  /\ limits[1].quantity = RNeg(market[1].quantity)

\* a buy entry was sent while lots were open, and its market order did not fill
C11_Witness ==
    /\ last.op = "OnData"
    /\ last.outcome = "buy"
    /\ last.status = "Submitted"
    /\ RLt(Zero, last.sellBefore)
    /\ Len(last.orders) = 1

\* C12: once a buy entry of L lots whose market order filled and the platform's
\* fill notification for that market order have both been processed, with no
\* other fill or liquidation in between, openBuyLots is its value before the
\* entry plus exactly L and openSellLots is what it was; the same for a sell
\* entry with the two counters exchanged.
C12_FilledEntryAddsItsLotsOnce ==
    (last.op = "OnOrderEvent" /\ last.ofEntry) =>
      LET L == RAbs(last.order.Quantity)
      IN  IF last.order.Direction = "Buy"
          THEN /\ openBuyLots = RAdd(last.buyBefore, L)
               /\ openSellLots = last.sellBefore
          ELSE /\ openSellLots = RAdd(last.sellBefore, L)
               /\ openBuyLots = last.buyBefore

C14_EnhancedRefreshExactlyWhenDue ==
    variant = "enhanced" =>
      \A t \in EnhancedTicks :
        LET ind == IndicatorsOf(t)
            lv == [buyLine |-> buyLine, sellLine |-> sellLine,
                   last_range_update |-> last_range_update]
            due == /\ ind.highReady /\ ind.lowReady /\ ind.atrReady
                   /\ \/ buyLine = None
                      \/ sellLine = None
                      \/ Time - last_range_update >= range_update_interval
            after == Enhanced_UpdateRangeLevels(lv, ind, Time)
        IN  IF due
            THEN /\ after.buyLine = RSub(ind.low, ind.atr)
                 /\ after.sellLine = RAdd(ind.high, ind.atr)
                 /\ after.last_range_update = Time
            ELSE after = lv

\* the levels were set at time 0 and the interval has passed since: a refresh
\* is due for the second time
C14_Witness ==
    /\ variant = "enhanced"
    /\ buyLine # None
    /\ sellLine # None
    /\ last_range_update = 0
    /\ Time - last_range_update = range_update_interval

\* C15: in the enhanced variant the refresh of the range levels runs before the
\* range-bound filter, so after a tick classified as not range-bound on which
\* high, low and atr are all ready, both levels are set and are not older than
\* range_update_interval.
C15_RefreshBeforeFilter ==
    ( /\ variant = "enhanced"
      /\ last.op = "OnData"
      /\ last.outcome = "not_range_bound"
      /\ last.ready )
    => /\ buyLine # None
       /\ sellLine # None
       /\ Time - last_range_update < range_update_interval

-----------------------------------------------------------------------------
(* Properties of the range-bound filter, under SpecGate *)

\* C16: IsRangeBound of the enhanced variant returns false whenever the Bollinger bands are not ready,
\* whenever |upper - lower| < 0.00001, and whenever the ATR it reads is not
\* ready: it never returns true on an indicator snapshot with an input missing.
C16_IsRangeBoundFailsClosed ==
    ( /\ variant = "enhanced"
      /\ last.op = "CanTrade"
      /\ \/ ~last.ind.bbReady
         \/ ~last.ind.atrReady
         \/ RLt(RAbs(RSub(last.ind.upper, last.ind.lower)), R(1, 100000)) )
    => ~IsRangeBound(last.ind)

-----------------------------------------------------------------------------
(* Properties of the tick, under Spec *)

\* the ATR values IsVolatilityHigh is tried on
NonNegativeATRs == {Zero, R(1, 100000), Pips(2), FromInt(1), FromInt(1000000)}

Favorable(own, opposing) ==
    /\ ~(own = Zero /\ opposing = Zero)
    /\ RLe(RMul(RDiv(FromInt(r2r + 1), FromInt(r2r)), opposing), own)

\* C18: no buy market order is sent on a tick that starts with a non-zero
\* exposure and (r2r + 1) / r2r * openSellLots <= openBuyLots, and no sell market
\* order on one that starts with (r2r + 1) / r2r * openBuyLots <= openSellLots;
\* in particular none is sent while openBuyLots > 0 and openSellLots = 0.
C18_FavorableExposureNeverTrades ==
    last.op = "OnData" =>
      /\ last.outcome = "buy" => ~Favorable(last.buyBefore, last.sellBefore)
      /\ last.outcome = "sell" => ~Favorable(last.sellBefore, last.buyBefore)
      /\ ( /\ last.price # None
           /\ RLe(last.price, buyLine)
           /\ Favorable(last.buyBefore, last.sellBefore) )
         => last.orders = << >> /\ last.outcome = "none"

\* a tick at or below the buy line with buy lots open and no sell lots sent
\* nothing because the size was not positive
C18_Witness ==
    /\ last.op = "OnData"
    /\ last.outcome = "none"
    /\ last.price # None
    /\ RLe(last.price, buyLine)
    /\ RLt(Zero, last.buyBefore)
    /\ last.sellBefore = Zero
    /\ RLe(last.size, Zero)
    /\ last.orders = << >>

\* C19: a tick sends at most one market order; it sends a buy entry only if both
\* range lines are set, price <= buyLine, the size computed is > 0 and CanTrade
\* is true, and a sell entry only if in addition price > buyLine and
\* price >= sellLine; a tick with buyLine < price < sellLine sends no order.
C19_AtMostOneEntryPerTick ==
    last.op = "OnData" =>
      LET market == OfType(last.orders, "Market")
          entered == last.outcome \in {"buy", "sell"}
      IN  /\ Len(market) <= 1
          /\ market # << >> =>
               /\ entered
               /\ RLt(Zero, market[1].quantity) <=> last.outcome = "buy"
          /\ entered =>
               /\ buyLine # None /\ sellLine # None
               /\ last.price # None
               /\ RLt(Zero, last.size)
               /\ last.canTrade
               /\ RAbs(market[1].quantity) = last.size
          /\ last.outcome = "buy" => RLe(last.price, buyLine)
          /\ last.outcome = "sell" =>
               RLt(buyLine, last.price) /\ RLe(sellLine, last.price)
          /\ ( /\ last.price # None
               /\ RLt(buyLine, last.price)
               /\ RLt(last.price, sellLine) )
             => last.orders = << >>

\* a tick between the two lines sent nothing although lots were open
C19_Witness ==
    /\ last.op = "OnData"
    /\ last.price # None
    /\ RLt(buyLine, last.price)
    /\ RLt(last.price, sellLine)
    /\ RLt(Zero, openBuyLots)
    /\ last.orders = << >>

\* C20: in every state the enhanced variant reaches, the number of open orders
\* is at most 6, the limit CanTrade tests.
C20_OpenOrdersWithinLimit ==
    variant = "enhanced" => openOrders <= 6

=============================================================================
